---- MODULE Spec2Model ----
(***************************************************************************)
(* Model of the beancount-language-server entry points:                    *)
(*   crates/lsp/src/main.rs   main, setup_logging, parse_log_level         *)
(*   crates/pylsp/src/lib.rs  main (the Python-callable forwarder)         *)
(*                                                                         *)
(* Strings that the code inspects (severity strings, paths) are sequences  *)
(* of one-character strings, so that to_lowercase is a real conversion.    *)
(* An Option<T> is a tuple of length 0 (None) or 1 (Some).                 *)
(***************************************************************************)
EXTENDS Naturals, Sequences, FiniteSets

VARIABLES
    argv,          \* the process argument list (after the program name)
    pc,            \* position of main
    matches,       \* Option<ArgMatches>: result of get_matches
    log_file,      \* local of main: Option<String>
    log_level,     \* local of main: Option<&String>
    stdout,        \* what was printed on standard output
    stderr,        \* what was printed on standard error (eprintln!, clap errors)
    subscriber,    \* Option<global tracing subscriber>: [writer, level]
    installs,      \* how many times a global subscriber was installed
    opened,        \* paths on which OpenOptions::open(create, append) was called
    created,       \* paths opened successfully (file exists afterwards)
    records,       \* tracing events issued by main, in order
    written,       \* events that passed the filter, with the sink they went to
    server_calls,  \* number of run_server invocations
    server_result, \* Option<Result<(), e>> returned by run_server
    exit_status,   \* Option<process exit status>
    level_str,     \* parse_log_level under test: its argument
    level_out,     \* parse_log_level under test: Option<LevelFilter>
    py_pc,         \* position of the pylsp forwarder
    py_args,       \* Vec<String> handed over by the host
    py_forwarded,  \* Option<argument list the library entry function received>
    py_status,     \* Option<i32 the library entry function produced>
    py_result      \* Option<PyResult<i32> returned to the host>

mainVars == <<argv, pc, matches, log_file, log_level, stdout, subscriber, installs,
              opened, created, records, written, server_calls, server_result,
              exit_status>>
parseVars == <<level_str, level_out>>
pyVars == <<py_pc, py_args, py_forwarded, py_status, py_result>>
vars == <<mainVars, stderr, parseVars, pyVars>>

(***************************************************************************)
(* Bounds                                                                  *)
(***************************************************************************)
MaxArgs == 4
MaxStrLen == 3
MaxPyArgs == 3

None == <<>>
Some(x) == <<x>>
IsSome(o) == Len(o) = 1
Unwrap(o) == o[1]

(***************************************************************************)
(* Strings                                                                 *)
(***************************************************************************)
S_trace == <<"t", "r", "a", "c", "e">>
S_debug == <<"d", "e", "b", "u", "g">>
S_info == <<"i", "n", "f", "o">>
S_warn == <<"w", "a", "r", "n">>
S_error == <<"e", "r", "r", "o", "r">>
S_off == <<"o", "f", "f">>
S_WARN == <<"W", "A", "R", "N">>
S_x == <<"x">>
S_P == <<"P">>

DEFAULT_LOG_FILE ==
    <<"b", "e", "a", "n", "c", "o", "u", "n", "t", "-",
      "l", "a", "n", "g", "u", "a", "g", "e", "-",
      "s", "e", "r", "v", "e", "r", ".", "l", "o", "g">>

LowerOf ==
    [c \in {"A", "B", "C", "D", "E", "F", "G", "I", "N", "O", "R", "T", "U", "W"} |->
        CASE c = "A" -> "a" [] c = "B" -> "b" [] c = "C" -> "c" [] c = "D" -> "d"
          [] c = "E" -> "e" [] c = "F" -> "f" [] c = "G" -> "g" [] c = "I" -> "i"
          [] c = "N" -> "n" [] c = "O" -> "o" [] c = "R" -> "r" [] c = "T" -> "t"
          [] c = "U" -> "u" [] c = "W" -> "w"]

\* str::to_lowercase: upper-case letters map to lower case, everything else
\* (lower-case letters, digits, punctuation) is kept.
to_lowercase(s) ==
    [i \in 1..Len(s) |-> IF s[i] \in DOMAIN LowerOf THEN LowerOf[s[i]] ELSE s[i]]

(***************************************************************************)
(* parse_log_level                                                         *)
(***************************************************************************)
LevelFilters == {"TRACE", "DEBUG", "INFO", "WARN", "ERROR", "OFF"}

Msg(kind, arg) == [kind |-> kind, arg |-> arg]

parse_log_level_no_lowercase(s) ==
    CASE s = S_trace -> [level |-> "TRACE", err |-> <<>>]
      [] s = S_debug -> [level |-> "DEBUG", err |-> <<>>]
      [] s = S_info -> [level |-> "INFO", err |-> <<>>]
      [] s = S_warn -> [level |-> "WARN", err |-> <<>>]
      [] s = S_error -> [level |-> "ERROR", err |-> <<>>]
      [] s = S_off -> [level |-> "OFF", err |-> <<>>]
      [] OTHER -> [level |-> "INFO", err |-> <<Msg("invalid_log_level", s)>>]

\* Returns the level and what the call prints on standard error.
parse_log_level(s) ==
    LET l == to_lowercase(s) IN
    CASE l = S_trace -> [level |-> "TRACE", err |-> <<>>]
      [] l = S_debug -> [level |-> "DEBUG", err |-> <<>>]
      [] l = S_info -> [level |-> "INFO", err |-> <<>>]
      [] l = S_warn -> [level |-> "WARN", err |-> <<>>]
      [] l = S_error -> [level |-> "ERROR", err |-> <<>>]
      [] l = S_off -> [level |-> "OFF", err |-> <<>>]
      [] OTHER -> [level |-> "INFO", err |-> <<Msg("invalid_log_level", s)>>]

(***************************************************************************)
(* Command line: the tokens of argv and clap's parse of them               *)
(***************************************************************************)
Long(name) == [kind |-> "long", name |-> name, val |-> None]
LongEq(name, v) == [kind |-> "long", name |-> name, val |-> Some(v)]
Short(name) == [kind |-> "short", name |-> name, val |-> None]
Value(v) == [kind |-> "value", name |-> "", val |-> Some(v)]

\* The argument words the model draws argv from: every declared argument in
\* each of its forms, clap's generated --help, an undeclared flag and a bare word.
Tokens ==
    { Long("stdio"),
      Long("log"), LongEq("log", S_WARN),
      Long("log-level"), LongEq("log-level", S_debug),
      Long("log-file"), LongEq("log-file", S_P),
      Short("v"), Long("version"),
      Long("help"), Long("bogus"),
      Value(S_x) }

ArgLists == UNION {[1..n -> Tokens] : n \in 0..MaxArgs}

\* The arguments main declares: id -> whether it takes a value and how many.
\*   stdio, version : flags (ArgAction::SetTrue)
\*   log, log-level : [LOG_LEVEL], zero or one value
\*   log-file       : <LOG_FILE>, exactly one value
Flags == {"stdio", "version"}
OptionalValue == {"log", "log-level"}
RequiredValue == {"log-file"}
Declared == Flags \cup OptionalValue \cup RequiredValue

\* The id a flag token names ("" when it names none of the declared arguments).
ArgId(tok) ==
    IF tok.kind = "short"
      THEN (IF tok.name = "v" THEN "version" ELSE "")
      ELSE (IF tok.name \in Declared THEN tok.name ELSE "")

EmptyMatches == [ids |-> {}, vals |-> [id \in {} |-> None]]

\* ArgMatches accessors used by main.
contains_id(m, id) == id \in m.ids
get_one(m, id) == IF id \in DOMAIN m.vals THEN Some(m.vals[id]) ELSE None
get_flag(m, id) == id \in m.ids
args_present(m) == m.ids # {}

WithId(m, id) == [m EXCEPT !.ids = @ \cup {id}]
WithVal(m, id, v) ==
    [ids |-> m.ids \cup {id},
     vals |-> [k \in DOMAIN m.vals \cup {id} |-> IF k = id THEN v ELSE m.vals[k]]]

ParseOk(m) == [kind |-> "ok", m |-> m]
ParseErr == [kind |-> "error", m |-> EmptyMatches]
ParseHelp == [kind |-> "help", m |-> EmptyMatches]

\* clap's parse of args from position i on, with matches m so far and pend the
\* id of the option whose value may still follow ("" when none).
RECURSIVE ParseFrom(_, _, _, _)
ParseFrom(args, i, m, pend) ==
    IF i > Len(args)
      THEN (IF pend \in RequiredValue THEN ParseErr ELSE ParseOk(m))
    ELSE LET tok == args[i]
             id == ArgId(tok)
         IN
         IF tok.kind = "value"
           THEN (IF pend = ""
                   THEN ParseErr                  \* unexpected argument
                   ELSE ParseFrom(args, i + 1, WithVal(m, pend, Unwrap(tok.val)), ""))
         ELSE IF pend \in RequiredValue
           THEN ParseErr                          \* a value is required
         ELSE IF tok.kind = "long" /\ tok.name = "help"
           THEN ParseHelp
         ELSE IF id = ""
           THEN ParseErr                          \* unexpected argument
         ELSE IF id \in m.ids
           THEN ParseErr                          \* cannot be used multiple times
         ELSE IF id \in Flags
           THEN (IF IsSome(tok.val)
                   THEN ParseErr                  \* unexpected value for a flag
                   ELSE ParseFrom(args, i + 1, WithId(m, id), ""))
         ELSE IF IsSome(tok.val)
           THEN ParseFrom(args, i + 1, WithVal(m, id, Unwrap(tok.val)), "")
         ELSE IF id \in RequiredValue
           THEN ParseFrom(args, i + 1, m, id)
         ELSE ParseFrom(args, i + 1, WithId(m, id), id)

\* Command::new(..).args(..).get_matches() on the process arguments.
get_matches(args) == ParseFrom(args, 1, EmptyMatches, "")

(***************************************************************************)
(* main: the values it computes between get_matches and setup_logging      *)
(***************************************************************************)
version_requested_only_alone(m) == m.ids = {"version"}

\* main.rs:20  matches.args_present() && matches.get_flag("version")
version_requested(m) == args_present(m) /\ get_flag(m, "version")

resolve_log_file_default_first(m) ==
    IF contains_id(m, "log") THEN Some(DEFAULT_LOG_FILE) ELSE get_one(m, "log-file")

\* main.rs:25-31  --log-file's value, else the default name when --log is present
resolve_log_file(m) ==
    IF IsSome(get_one(m, "log-file"))
      THEN get_one(m, "log-file")
      ELSE (IF contains_id(m, "log") THEN Some(DEFAULT_LOG_FILE) ELSE None)

resolve_log_level_deprecated_first(m) ==
    IF IsSome(get_one(m, "log")) THEN get_one(m, "log") ELSE get_one(m, "log-level")

\* main.rs:33-35  --log-level's value, else --log's value
resolve_log_level(m) ==
    IF IsSome(get_one(m, "log-level")) THEN get_one(m, "log-level") ELSE get_one(m, "log")

(***************************************************************************)
(* Logging                                                                 *)
(***************************************************************************)
StderrWriter == [kind |-> "stderr", path |-> <<>>]
FileWriter(path) == [kind |-> "file", path |-> path]

\* Verbosity of a level: a record is let through when its level is at most the
\* filter's (LevelFilter::OFF lets nothing through).
Verbosity(l) ==
    CASE l = "OFF" -> 0 [] l = "ERROR" -> 1 [] l = "WARN" -> 2
      [] l = "INFO" -> 3 [] l = "DEBUG" -> 4 [] l = "TRACE" -> 5

Record(level, msg, detail) == [level |-> level, msg |-> msg, detail |-> detail]

\* What a tracing event adds to the sink under the global subscriber sub:
\* nothing when no subscriber is installed or the filter rejects the level.
Emit(sub, rec) ==
    IF IsSome(sub) /\ Verbosity(rec.level) <= Verbosity(Unwrap(sub).level)
      THEN <<[writer |-> Unwrap(sub).writer, rec |-> rec]>>
      ELSE <<>>

\* What main records of an event it issues: the event and whether a
\* subscriber was installed when it was issued.
Issued(sub, rec) == <<[rec |-> rec, installed |-> IsSome(sub)]>>

setup_logging_open_failure_fatal(lf, ll, open_ok, sub) ==
    LET lvl == IF IsSome(ll) THEN parse_log_level(Unwrap(ll))
                             ELSE [level |-> "INFO", err |-> <<>>]
    IN IF IsSome(lf) /\ ~open_ok
         THEN [err |-> lvl.err \o <<Msg("open_failed", Unwrap(lf))>>,
               opened |-> {Unwrap(lf)}, created |-> {},
               panicked |-> TRUE, sub |-> sub, installed |-> 0]
         ELSE [err |-> lvl.err \o (IF IsSome(lf) THEN <<Msg("logging_to_file", Unwrap(lf))>> ELSE <<>>),
               opened |-> (IF IsSome(lf) THEN {Unwrap(lf)} ELSE {}),
               created |-> (IF IsSome(lf) THEN {Unwrap(lf)} ELSE {}),
               panicked |-> FALSE,
               sub |-> Some([writer |-> IF IsSome(lf) THEN FileWriter(Unwrap(lf)) ELSE StderrWriter,
                             level |-> lvl.level]),
               installed |-> 1]

setup_logging_invalid_level_fatal(lf, ll, open_ok, sub) ==
    LET lvl == IF IsSome(ll) THEN parse_log_level(Unwrap(ll))
                             ELSE [level |-> "INFO", err |-> <<>>]
        file == IF IsSome(lf) /\ open_ok THEN lf ELSE None
    IN [err |-> lvl.err \o (IF IsSome(lf)
                              THEN <<Msg(IF open_ok THEN "logging_to_file" ELSE "open_failed", Unwrap(lf))>>
                              ELSE <<>>),
        opened |-> (IF IsSome(lf) THEN {Unwrap(lf)} ELSE {}),
        created |-> (IF IsSome(file) THEN {Unwrap(file)} ELSE {}),
        panicked |-> IsSome(sub) \/ lvl.err # <<>>,
        sub |-> IF IsSome(sub) \/ lvl.err # <<>> THEN sub
                ELSE Some([writer |-> IF IsSome(file) THEN FileWriter(Unwrap(file)) ELSE StderrWriter,
                           level |-> lvl.level]),
        installed |-> IF IsSome(sub) \/ lvl.err # <<>> THEN 0 ELSE 1]

setup_logging_no_install(lf, ll, open_ok, sub) ==
    LET lvl == IF IsSome(ll) THEN parse_log_level(Unwrap(ll))
                             ELSE [level |-> "INFO", err |-> <<>>]
        file == IF IsSome(lf) /\ open_ok THEN lf ELSE None
    IN [err |-> lvl.err \o (IF IsSome(lf)
                              THEN <<Msg(IF open_ok THEN "logging_to_file" ELSE "open_failed", Unwrap(lf))>>
                              ELSE <<>>),
        opened |-> (IF IsSome(lf) THEN {Unwrap(lf)} ELSE {}),
        created |-> (IF IsSome(file) THEN {Unwrap(file)} ELSE {}),
        panicked |-> FALSE,
        sub |-> sub,
        installed |-> 0]

\* setup_logging(log_file, log_level_arg), main.rs:61-94.  open_ok is whether
\* OpenOptions::open succeeds, sub the global subscriber before the call.
\* The result is everything the call does: what it prints on standard error,
\* the paths it opens and creates, whether .init() panics (a global subscriber
\* is already set), and the global subscriber afterwards.
setup_logging(lf, ll, open_ok, sub) ==
    LET lvl == IF IsSome(ll) THEN parse_log_level(Unwrap(ll))
                             ELSE [level |-> "INFO", err |-> <<>>]
        file == IF IsSome(lf) /\ open_ok THEN lf ELSE None
    IN [err |-> lvl.err \o (IF IsSome(lf)
                              THEN <<Msg(IF open_ok THEN "logging_to_file" ELSE "open_failed", Unwrap(lf))>>
                              ELSE <<>>),
        opened |-> (IF IsSome(lf) THEN {Unwrap(lf)} ELSE {}),
        created |-> (IF IsSome(file) THEN {Unwrap(file)} ELSE {}),
        panicked |-> IsSome(sub),
        sub |-> IF IsSome(sub) THEN sub
                ELSE Some([writer |-> IF IsSome(file) THEN FileWriter(Unwrap(file)) ELSE StderrWriter,
                           level |-> lvl.level]),
        installed |-> IF IsSome(sub) THEN 0 ELSE 1]

(***************************************************************************)
(* run_server and what main makes of its result                            *)
(***************************************************************************)
Ok == [ok |-> TRUE, e |-> ""]
Err(e) == [ok |-> FALSE, e |-> e]

\* run_server is opaque: it returns Ok(()) or some error.
ServerOutcomes == {Ok, Err("e1"), Err("e2")}

outcome_always_zero(r) ==
    IF r.ok
      THEN [rec |-> Record("INFO", "shutdown", <<>>), status |-> 0, pc |-> "returned"]
      ELSE [rec |-> Record("ERROR", "failed", <<r.e>>), status |-> 0, pc |-> "returned"]

outcome_retry(r) ==
    IF r.ok
      THEN [rec |-> Record("INFO", "shutdown", <<>>), status |-> 0, pc |-> "returned"]
      ELSE [rec |-> Record("ERROR", "failed", <<r.e>>), status |-> 1, pc |-> "run_server"]

\* main.rs:50-58  the terminal record, the exit status and how main ends.
outcome(r) ==
    IF r.ok
      THEN [rec |-> Record("INFO", "shutdown", <<>>), status |-> 0, pc |-> "returned"]
      ELSE [rec |-> Record("ERROR", "failed", <<r.e>>), status |-> 1, pc |-> "exited"]

(***************************************************************************)
(* main, step by step                                                      *)
(***************************************************************************)
mainIdle ==
    /\ matches = None /\ log_file = None /\ log_level = None
    /\ stdout = <<>> /\ subscriber = None /\ installs = 0
    /\ opened = {} /\ created = {} /\ records = <<>> /\ written = <<>>
    /\ server_calls = 0 /\ server_result = None /\ exit_status = None

parseIdle == level_str = <<>> /\ level_out = None

pyIdle ==
    /\ py_pc = "idle" /\ py_args = <<>> /\ py_forwarded = None
    /\ py_status = None /\ py_result = None

\* A fresh process started with any argument list: nothing printed, no
\* subscriber installed, no file opened.
Init ==
    /\ argv \in ArgLists
    /\ pc = "start"
    /\ mainIdle
    /\ stderr = <<>>
    /\ parseIdle
    /\ pyIdle

\* main.rs:10-18  get_matches rejects the arguments: clap prints the error on
\* standard error and exits with status 2.
GetMatchesError ==
    /\ pc = "start"
    /\ get_matches(argv).kind = "error"
    /\ stderr' = stderr \o <<Msg("usage_error", <<>>)>>
    /\ exit_status' = Some(2)
    /\ pc' = "exited"
    /\ UNCHANGED <<argv, matches, log_file, log_level, stdout, subscriber, installs,
                   opened, created, records, written, server_calls, server_result,
                   parseVars, pyVars>>

\* main.rs:10-18  get_matches meets --help: clap prints the help text on
\* standard output and exits with status 0.
GetMatchesHelp ==
    /\ pc = "start"
    /\ get_matches(argv).kind = "help"
    /\ stdout' = stdout \o <<Msg("help", <<>>)>>
    /\ exit_status' = Some(0)
    /\ pc' = "exited"
    /\ UNCHANGED <<argv, matches, log_file, log_level, stderr, subscriber, installs,
                   opened, created, records, written, server_calls, server_result,
                   parseVars, pyVars>>

\* main.rs:10-18  get_matches accepts the arguments.
GetMatchesOk ==
    /\ pc = "start"
    /\ get_matches(argv).kind = "ok"
    /\ matches' = Some(get_matches(argv).m)
    /\ pc' = "version_check"
    /\ UNCHANGED <<argv, log_file, log_level, stdout, stderr, subscriber, installs,
                   opened, created, records, written, server_calls, server_result,
                   exit_status, parseVars, pyVars>>

\* main.rs:20-23  the version switch: print the version and return.
PrintVersion ==
    /\ pc = "version_check"
    /\ version_requested(Unwrap(matches))
    /\ stdout' = stdout \o <<Msg("version", <<>>)>>
    /\ exit_status' = Some(0)
    /\ pc' = "returned"
    /\ UNCHANGED <<argv, matches, log_file, log_level, stderr, subscriber, installs,
                   opened, created, records, written, server_calls, server_result,
                   parseVars, pyVars>>

\* main.rs:25-35  resolve the log destination and the severity string.
ResolveLogging ==
    /\ pc = "version_check"
    /\ ~version_requested(Unwrap(matches))
    /\ log_file' = resolve_log_file(Unwrap(matches))
    /\ log_level' = resolve_log_level(Unwrap(matches))
    /\ pc' = "setup_logging"
    /\ UNCHANGED <<argv, matches, stdout, stderr, subscriber, installs,
                   opened, created, records, written, server_calls, server_result,
                   exit_status, parseVars, pyVars>>

\* main.rs:37  setup_logging(log_file.as_deref(), log_level), the whole call.
SetupLogging ==
    /\ pc = "setup_logging"
    /\ \E open_ok \in BOOLEAN :
         LET r == setup_logging(log_file, log_level, open_ok, subscriber) IN
         /\ stderr' = stderr \o r.err
         /\ opened' = opened \cup r.opened
         /\ created' = created \cup r.created
         /\ subscriber' = r.sub
         /\ installs' = installs + r.installed
         /\ pc' = IF r.panicked THEN "panicked" ELSE "startup"
         /\ exit_status' = IF r.panicked THEN Some(101) ELSE exit_status
    /\ UNCHANGED <<argv, matches, log_file, log_level, stdout, records, written,
                   server_calls, server_result, parseVars, pyVars>>

\* main.rs:39-48  the startup record (info) and the arguments record (debug).
EmitStartup ==
    /\ pc = "startup"
    /\ LET starting == Record("INFO", "starting", <<>>)
           args == Record("DEBUG", "args",
                          <<get_flag(Unwrap(matches), "stdio"), log_file, log_level>>)
       IN /\ records' = records \o Issued(subscriber, starting) \o Issued(subscriber, args)
          /\ written' = written \o Emit(subscriber, starting) \o Emit(subscriber, args)
    /\ pc' = "run_server"
    /\ UNCHANGED <<argv, matches, log_file, log_level, stdout, stderr, subscriber,
                   installs, opened, created, server_calls, server_result,
                   exit_status, parseVars, pyVars>>

\* main.rs:50  beancount_language_server::run_server() runs and returns.
RunServer ==
    /\ pc = "run_server"
    /\ \E r \in ServerOutcomes : server_result' = Some(r)
    /\ server_calls' = server_calls + 1
    /\ pc' = "server_returned"
    /\ UNCHANGED <<argv, matches, log_file, log_level, stdout, stderr, subscriber,
                   installs, opened, created, records, written, exit_status,
                   parseVars, pyVars>>

\* main.rs:51-58  the terminal record, then return (status 0) or exit(1).
HandleOutcome ==
    /\ pc = "server_returned"
    /\ LET o == outcome(Unwrap(server_result)) IN
         /\ records' = records \o Issued(subscriber, o.rec)
         /\ written' = written \o Emit(subscriber, o.rec)
         /\ pc' = o.pc
         /\ exit_status' = IF o.pc \in {"returned", "exited"} THEN Some(o.status) ELSE exit_status
    /\ UNCHANGED <<argv, matches, log_file, log_level, stdout, stderr, subscriber,
                   installs, opened, created, server_calls, server_result,
                   parseVars, pyVars>>

Next ==
    \/ GetMatchesError
    \/ GetMatchesHelp
    \/ GetMatchesOk
    \/ PrintVersion
    \/ ResolveLogging
    \/ SetupLogging
    \/ EmitStartup
    \/ RunServer
    \/ HandleOutcome

Spec == Init /\ [][Next]_vars

(***************************************************************************)
(* parse_log_level on its own (the unit tests' view of it)                 *)
(***************************************************************************)
\* The lower-case and upper-case form of each letter of the level names.
CasePairs ==
    { <<"a", "A">>, <<"b", "B">>, <<"c", "C">>, <<"d", "D">>, <<"e", "E">>,
      <<"f", "F">>, <<"g", "G">>, <<"i", "I">>, <<"n", "N">>, <<"o", "O">>,
      <<"r", "R">>, <<"t", "T">>, <<"u", "U">>, <<"w", "W">> }

LevelNames == {S_trace, S_debug, S_info, S_warn, S_error, S_off}

\* Every casing of a lower-case word.
RECURSIVE Casings(_)
Casings(w) ==
    IF w = <<>> THEN {<<>>}
    ELSE LET ups == {p[2] : p \in {q \in CasePairs : q[1] = Head(w)}}
         IN {<<c>> \o t : c \in {Head(w)} \cup ups, t \in Casings(Tail(w))}

ShortStrings == UNION {[1..n -> {"o", "f", "F", "1"}] : n \in 0..MaxStrLen}

\* The strings of tests::test_parse_log_level_invalid_defaults_to_info and
\* near misses of the level names.
OtherStrings ==
    { <<"i", "n", "v", "a", "l", "i", "d">>,
      <<"u", "n", "k", "n", "o", "w", "n">>,
      <<>>,
      <<"1", "2", "3">>,
      <<"i", "n", "f", "o", "o">>,
      <<"I", "N", "F">>,
      <<"w", "a", "r", "n", "i", "n", "g">>,
      <<"T", "r", "a", "c", "e", " ">>,
      <<" ", "o", "f", "f">>,
      <<"e", "r", "r">> }

LevelInputs == UNION {Casings(w) : w \in LevelNames} \cup ShortStrings \cup OtherStrings

InitParse ==
    /\ level_str \in LevelInputs
    /\ level_out = None
    /\ stderr = <<>>
    /\ argv = <<>> /\ pc = "off" /\ mainIdle
    /\ pyIdle

\* One call parse_log_level(level_str).
ParseLogLevel ==
    /\ level_out = None
    /\ pc = "off" /\ py_pc = "idle"
    /\ level_out' = Some(parse_log_level(level_str).level)
    /\ stderr' = stderr \o parse_log_level(level_str).err
    /\ UNCHANGED <<level_str, mainVars, pyVars>>

NextParse == ParseLogLevel

SpecParse == InitParse /\ [][NextParse]_vars

(***************************************************************************)
(* pylsp: the forwarder main(args) exposed to the Python host              *)
(***************************************************************************)
PyWords == {"--stdio", "--log", "x"}
PyArgLists == UNION {[1..n -> PyWords] : n \in 0..MaxPyArgs}

\* The status beancount_language_server::main may produce.
Statuses == {0, 1, 2}

forward_args_reversed(args) == [i \in 1..Len(args) |-> args[Len(args) + 1 - i]]

\* lib.rs:5  args is moved, as it is, into beancount_language_server::main.
forward_args(args) == args

PyOk(v) == [ok |-> TRUE, value |-> v]
PyErr(v) == [ok |-> FALSE, value |-> v]

wrap_status_raise_nonzero(status) == IF status = 0 THEN PyOk(status) ELSE PyErr(status)

\* lib.rs:5  Ok(..) around the status.
wrap_status(status) == PyOk(status)

InitPy ==
    /\ py_args \in PyArgLists
    /\ py_pc = "called"
    /\ py_forwarded = None /\ py_status = None /\ py_result = None
    /\ stderr = <<>>
    /\ argv = <<>> /\ pc = "off" /\ mainIdle
    /\ parseIdle

\* lib.rs:5  the call of beancount_language_server::main(args): the library
\* function receives the list and produces a status.
PyCallEntry ==
    /\ py_pc = "called"
    /\ py_forwarded' = Some(forward_args(py_args))
    /\ \E status \in Statuses : py_status' = Some(status)
    /\ py_pc' = "entry_returned"
    /\ UNCHANGED <<py_args, py_result, mainVars, stderr, parseVars>>

\* lib.rs:4-6  the forwarder returns to the host.
PyReturn ==
    /\ py_pc = "entry_returned"
    /\ py_result' = Some(wrap_status(Unwrap(py_status)))
    /\ py_pc' = "returned"
    /\ UNCHANGED <<py_args, py_forwarded, py_status, mainVars, stderr, parseVars>>

NextPy == PyCallEntry \/ PyReturn

SpecPy == InitPy /\ [][NextPy]_vars

(***************************************************************************)
(* Properties                                                              *)
(***************************************************************************)
Range(f) == {f[i] : i \in DOMAIN f}

\* What the command line says, read off argv itself.
Present(args, name) == \E i \in DOMAIN args : args[i].kind = "long" /\ args[i].name = name
HasVersionSwitch(args) ==
    \E i \in DOMAIN args : args[i] = Short("v") \/ args[i] = Long("version")
\* The value --name carries: attached (--name=V) or as the next word (--name V).
GivenValue(args, name) ==
    IF \E i \in DOMAIN args : args[i].kind = "long" /\ args[i].name = name /\ IsSome(args[i].val)
      THEN (CHOOSE t \in Range(args) : t.kind = "long" /\ t.name = name /\ IsSome(t.val)).val
    ELSE IF \E i \in DOMAIN args : /\ args[i] = Long(name) /\ i < Len(args)
                                   /\ args[i + 1].kind = "value"
      THEN args[(CHOOSE i \in DOMAIN args : /\ args[i] = Long(name) /\ i < Len(args)
                                            /\ args[i + 1].kind = "value") + 1].val
    ELSE None

Accepted == get_matches(argv).kind = "ok"
ServerSucceeded == IsSome(server_result) /\ Unwrap(server_result).ok
ServerFailed == IsSome(server_result) /\ ~Unwrap(server_result).ok
VersionPathTaken == Msg("version", <<>>) \in Range(stdout)
Ended == pc \in {"returned", "exited", "panicked"}
\* main is past the version check on the branch that did not return.
PastVersionCheck ==
    \/ pc \in {"setup_logging", "startup", "run_server", "server_returned", "panicked"}
    \/ (pc \in {"returned", "exited"} /\ Accepted /\ ~VersionPathTaken)
LoggingSetUp ==
    \/ pc \in {"startup", "run_server", "server_returned"}
    \/ (pc \in {"returned", "exited"} /\ Accepted /\ ~VersionPathTaken)

\* C1 as stated: every run, whatever the argument list, ends with status 0
\* exactly when the version path was taken or run_server succeeded, with status
\* 1 exactly when run_server failed, and with no other status.
C1_AnyArgumentList ==
    IsSome(exit_status) =>
        /\ Unwrap(exit_status) \in {0, 1}
        /\ (Unwrap(exit_status) = 0) <=> (VersionPathTaken \/ ServerSucceeded)
        /\ (Unwrap(exit_status) = 1) <=> ServerFailed

\* C1 amended: a run whose argument list get_matches accepts ends with status
\* 0 exactly when the version path was taken or run_server succeeded and with
\* status 1 exactly when run_server failed; a run whose argument list
\* get_matches rejects ends with status 2, and a run with --help with status
\* 0, both before the version check, logging setup and run_server.
C1_ExitStatus ==
    IsSome(exit_status) =>
        CASE get_matches(argv).kind = "ok" ->
                /\ Unwrap(exit_status) \in {0, 1}
                /\ (Unwrap(exit_status) = 0) <=> (VersionPathTaken \/ ServerSucceeded)
                /\ (Unwrap(exit_status) = 1) <=> ServerFailed
          [] get_matches(argv).kind = "error" ->
                /\ exit_status = Some(2)
                /\ ~VersionPathTaken /\ installs = 0 /\ server_calls = 0
          [] get_matches(argv).kind = "help" ->
                /\ exit_status = Some(0)
                /\ ~VersionPathTaken /\ installs = 0 /\ server_calls = 0

C1_Witness ==
    /\ pc = "exited" /\ Accepted /\ ServerFailed /\ exit_status = Some(1)
    /\ Present(argv, "stdio")

\* C2: with the version switch on the command line, main never sets up
\* logging (no subscriber, no file opened or created, no record) and never
\* calls run_server; and when get_matches accepts the list (the version switch
\* alone or with any of --stdio, --log, --log-file, --log-level), main prints
\* the version string and nothing else, on either stream, and returns success.
C2_VersionShortCircuit ==
    HasVersionSwitch(argv) =>
        /\ subscriber = None /\ installs = 0
        /\ opened = {} /\ created = {}
        /\ records = <<>> /\ written = <<>>
        /\ server_calls = 0 /\ server_result = None
        /\ (Accepted /\ pc # "start" =>
               /\ pc \in {"version_check", "returned"}
               /\ stderr = <<>>
               /\ (pc = "returned" =>
                      /\ stdout = <<Msg("version", <<>>)>>
                      /\ exit_status = Some(0)))
        /\ (Accepted /\ pc = "version_check" => ENABLED PrintVersion /\ ~ENABLED ResolveLogging)

C2_Witness ==
    /\ pc = "returned" /\ VersionPathTaken
    /\ Present(argv, "log-file") /\ Present(argv, "log") /\ Present(argv, "log-level")

\* C3: the log destination handed to setup_logging is the value of --log-file
\* when it is given (also when --log is present), else the default file name
\* when --log is present (with or without a value), else none (standard
\* error); --log alone gives the default file name with severity info, and no
\* logging argument gives standard error with severity info.
C3_LogDestination ==
    PastVersionCheck /\ pc # "panicked" =>
        /\ log_file = IF IsSome(GivenValue(argv, "log-file")) THEN GivenValue(argv, "log-file")
                      ELSE IF Present(argv, "log") THEN Some(DEFAULT_LOG_FILE)
                      ELSE None
        /\ (LoggingSetUp =>
              /\ opened = (IF IsSome(log_file) THEN {Unwrap(log_file)} ELSE {})
              /\ created \subseteq opened
              /\ Unwrap(subscriber).writer =
                    (IF created # {} THEN FileWriter(Unwrap(log_file)) ELSE StderrWriter))
        /\ (LoggingSetUp /\ ~Present(argv, "log-file") /\ ~Present(argv, "log-level")
              /\ Present(argv, "log") /\ GivenValue(argv, "log") = None =>
              /\ log_file = Some(DEFAULT_LOG_FILE)
              /\ Unwrap(subscriber).level = "INFO")
        /\ (LoggingSetUp /\ ~Present(argv, "log-file") /\ ~Present(argv, "log-level")
              /\ ~Present(argv, "log") =>
              /\ log_file = None
              /\ Unwrap(subscriber) = [writer |-> StderrWriter, level |-> "INFO"])

C3_Witness ==
    /\ pc = "startup"
    /\ GivenValue(argv, "log-file") = Some(S_P) /\ Present(argv, "log")
    /\ log_file = Some(S_P)
    /\ Unwrap(subscriber).writer = FileWriter(S_P)

\* C4: the severity string handed to setup_logging is the value of --log-level
\* when it carries one, else the value of --log when it carries one, else
\* none; and with none the installed severity is info.
C4_LogSeverity ==
    PastVersionCheck /\ pc # "panicked" =>
        /\ log_level = IF IsSome(GivenValue(argv, "log-level")) THEN GivenValue(argv, "log-level")
                       ELSE GivenValue(argv, "log")
        /\ (LoggingSetUp /\ log_level = None => Unwrap(subscriber).level = "INFO")
        /\ (LoggingSetUp /\ log_level = Some(S_debug) => Unwrap(subscriber).level = "DEBUG")
        /\ (LoggingSetUp /\ log_level = Some(S_WARN) => Unwrap(subscriber).level = "WARN")

C4_Witness ==
    /\ pc = "startup"
    /\ GivenValue(argv, "log-level") = Some(S_debug) /\ GivenValue(argv, "log") = Some(S_WARN)
    /\ log_level = Some(S_debug)
    /\ Unwrap(subscriber).level = "DEBUG"

\* The level a name of LevelNames stands for.
LevelOf(w) ==
    CASE w = S_trace -> "TRACE" [] w = S_debug -> "DEBUG" [] w = S_info -> "INFO"
      [] w = S_warn -> "WARN" [] w = S_error -> "ERROR" [] w = S_off -> "OFF"
\* s is the word w up to the case of each letter.
IsCasingOf(s, w) ==
    /\ Len(s) = Len(w)
    /\ \A i \in 1..Len(w) : s[i] = w[i] \/ <<w[i], s[i]>> \in CasePairs
ReferenceLevel(s) ==
    IF \E w \in LevelNames : IsCasingOf(s, w)
      THEN LevelOf(CHOOSE w \in LevelNames : IsCasingOf(s, w))
      ELSE "INFO"

\* C5: parse_log_level returns, for any casing of trace, debug, info, warn,
\* error, off, the level of that name, and info for every other string (the
\* empty string and digits included); the result is always one of the six
\* levels, and exactly the strings that are no casing of a level name are
\* reported on standard error.
C5_ParseLogLevel ==
    IsSome(level_out) =>
        /\ Unwrap(level_out) = ReferenceLevel(level_str)
        /\ Unwrap(level_out) \in LevelFilters
        /\ (stderr = <<>>) <=> (\E w \in LevelNames : IsCasingOf(level_str, w))

C5_Witness ==
    /\ level_str = <<"T", "r", "A", "c", "E">>
    /\ level_out = Some("TRACE")

OpenFailed == IsSome(log_file) /\ Unwrap(log_file) \in opened \ created

\* C6: when the requested log file cannot be opened, setup_logging reports the
\* failure on standard error, installs the subscriber on standard error and
\* returns; main goes on to the startup record and to run_server, and the exit
\* status is 0 or 1 as run_server succeeded or failed.
C6_OpenFailureFallsBack ==
    OpenFailed =>
        /\ Msg("open_failed", Unwrap(log_file)) \in Range(stderr)
        /\ Msg("logging_to_file", Unwrap(log_file)) \notin Range(stderr)
        /\ installs = 1
        /\ Unwrap(subscriber).writer = StderrWriter
        /\ \A i \in DOMAIN written : written[i].writer = StderrWriter
        /\ pc \in {"startup", "run_server", "server_returned", "returned", "exited"}
        /\ (pc = "startup" => ENABLED EmitStartup)
        /\ (pc = "run_server" => records[1].rec.msg = "starting" /\ ENABLED RunServer)
        /\ (pc = "server_returned" => ENABLED HandleOutcome)
        /\ (pc \in {"returned", "exited"} =>
              /\ server_calls = 1
              /\ exit_status = Some(IF ServerSucceeded THEN 0 ELSE 1))

C6_Witness ==
    /\ OpenFailed /\ log_file = Some(S_P)
    /\ pc = "returned" /\ exit_status = Some(0)

C8_ForwarderReturnsStatus ==
    /\ (IsSome(py_forwarded) => Unwrap(py_forwarded) = py_args)
    /\ (py_pc = "entry_returned" => IsSome(py_status) /\ ENABLED PyReturn)
    /\ (py_pc = "returned" =>
          /\ IsSome(py_result)
          /\ Unwrap(py_result).ok
          /\ Unwrap(py_result).value = Unwrap(py_status))
    /\ (IsSome(py_result) => py_pc = "returned")

C8_Witness ==
    /\ py_pc = "returned"
    /\ py_args = <<"--log", "x", "--stdio">>
    /\ py_status = Some(1)
    /\ py_result = Some(PyOk(1))

C9_Installed ==
    /\ installs <= 1
    /\ (installs = 1 <=> IsSome(subscriber))
    /\ (LoggingSetUp => installs = 1)
    /\ (records # <<>> =>
          /\ installs = 1
          /\ records[1].rec.msg = "starting" /\ records[1].rec.level = "INFO"
          /\ \A i \in DOMAIN records : records[i].installed)
    /\ (server_calls > 0 => installs = 1 /\ Len(records) >= 2)
    /\ (\A i \in DOMAIN written : written[i].writer = Unwrap(subscriber).writer)

\* C9: on a run of main that goes past the version check, the global
\* subscriber is installed exactly once, before the startup record is issued
\* and before run_server is called; no record is issued while no subscriber is
\* installed; and once installed, the subscriber (its sink and its severity)
\* never changes.
C9_InstalledOnceBeforeUse ==
    /\ []C9_Installed
    /\ [][IsSome(subscriber) => subscriber' = subscriber /\ installs' = installs]_vars

C9_Witness ==
    /\ pc = "returned" /\ installs = 1 /\ Len(records) = 3
    /\ Unwrap(subscriber).writer = FileWriter(DEFAULT_LOG_FILE)

RecordsOf(msg) == {i \in DOMAIN records : records[i].rec.msg = msg}

\* C10: on a run of main that goes past the version check, run_server is
\* called exactly once and never again after it returned; its return is
\* followed by exactly one more record and the end of the run: after success
\* the info shutdown record (never the error record) and status 0, after
\* failure the error record with the failure detail (never the shutdown
\* record), issued before the exit with status 1.
C10_ServerOnceThenTerminalRecord ==
    /\ server_calls <= 1
    /\ (server_calls = 1 <=> IsSome(server_result))
    /\ (pc = "run_server" => server_calls = 0 /\ ENABLED RunServer)
    /\ (pc = "server_returned" =>
          /\ server_calls = 1 /\ exit_status = None /\ ENABLED HandleOutcome
          /\ RecordsOf("shutdown") = {} /\ RecordsOf("failed") = {})
    /\ (LoggingSetUp /\ Ended => server_calls = 1)
    /\ (IsSome(server_result) /\ pc # "server_returned" =>
          /\ Ended
          /\ Len(records) = 3
          /\ IF Unwrap(server_result).ok
               THEN /\ records[3].rec = Record("INFO", "shutdown", <<>>)
                    /\ RecordsOf("failed") = {}
                    /\ pc = "returned" /\ exit_status = Some(0)
               ELSE /\ records[3].rec = Record("ERROR", "failed", <<Unwrap(server_result).e>>)
                    /\ RecordsOf("shutdown") = {}
                    /\ pc = "exited" /\ exit_status = Some(1))

C10_Witness ==
    /\ pc = "exited" /\ exit_status = Some(1)
    /\ server_result = Some(Err("e2"))
    /\ records[3].rec.detail = <<"e2">>

====
